---- MODULE Spec2Model ----
(***************************************************************************)
(* Model of the orchestration layer of oxasl: corrections.py (motion,      *)
(* fieldmap, CBLIP and sensitivity corrections, and their application)     *)
(* and reg.py (ASL->calibration, ASL->structural and structural->standard  *)
(* registration, and the transform-chain functions).                       *)
(*                                                                         *)
(* A Python function f(wsp, ...) is an operator on a call record           *)
(*   W = [wsp, done, trace, err, ret]                                      *)
(* wsp   : the workspace, a function from node names to values; a name not *)
(*         in its domain reads as None; a sub-workspace (reg, structural)  *)
(*         is a node of kind "wsp" holding its own nodes                   *)
(* done  : the set of stage names marked done                              *)
(* trace : the external tool invocations made by the current call          *)
(* err   : "none", or the exception that ended the call                    *)
(* ret   : the value returned by the call                                  *)
(* pc    : where each worker stands in get_motion_correction when two      *)
(*         workers call it on one workspace, and its local variables       *)
(* The outputs of the external estimators are inputs of the actions.       *)
(***************************************************************************)
EXTENDS Integers, Sequences, FiniteSets, TLC

VARIABLES wsp, done, trace, err, ret, last, pc

vars == <<wsp, done, trace, err, ret, last, pc>>

(***************************************************************************)
(* Bounds of the model                                                     *)
(***************************************************************************)
\* largest number of volumes of the ASL series
MaxVols == 3

(***************************************************************************)
(* Values                                                                  *)
(***************************************************************************)
None == [kind |-> "none"]

IsNone(v) == v.kind = "none"

\* Python truthiness of a workspace value, as used by "if wsp.calib:"
Truthy(v) == v.kind # "none"

Bool(b) == [kind |-> "bool", v |-> b]

IsTrue(v) == v.kind = "bool" /\ v.v

Num(n) == [kind |-> "num", v |-> n]

Str(s) == [kind |-> "str", v |-> s]

Mat(m) == [kind |-> "mat", m |-> m]

\* an fsl.data.image.Image: name, number of volumes, acquisition order,
\* the value of one sample voxel, and the processing it went through
Img(name, nvols, iaf, data, proc) ==
  [kind |-> "image", name |-> name, nvols |-> nvols, iaf |-> iaf,
   data |-> data, proc |-> proc]

\* a non-linear warp field (also an Image): the sources composed into it, in
\* order, the affine applied after them, and the grid it is defined on
Warp(parts, postmat, grid) ==
  [kind |-> "warp", parts |-> parts, postmat |-> postmat, grid |-> grid]

\* sample values are rationals n/d in lowest terms with d > 0
RECURSIVE Gcd(_, _)
Gcd(a, b) == IF b = 0 THEN a ELSE Gcd(b, a % b)

Abs(a) == IF a < 0 THEN -a ELSE a

Rat(n, d) ==
  LET g == Gcd(Abs(n), Abs(d))
      s == IF d < 0 THEN -1 ELSE 1
  IN  [n |-> (s * n) \div g, d |-> (s * d) \div g]

\* a * b and a / b (b not zero) on sample values
RMul(a, b) == Rat(a.n * b.n, a.d * b.d)

RDiv(a, b) == Rat(a.n * b.d, a.d * b.n)

\* isinstance(v, Image)
IsImage(v) == v.kind \in {"image", "warp"}

(***************************************************************************)
(* Matrices: 4x4 affine matrices in homogeneous coordinates, as tuples of  *)
(* rows; a motion-correction matrix set is the (4*nvols, 4) concatenation  *)
(***************************************************************************)
Dim == 4

Identity == [i \in 1..Dim |-> [j \in 1..Dim |-> IF i = j THEN 1 ELSE 0]]

RECURSIVE SumTo(_, _)
SumTo(f, n) == IF n = 0 THEN 0 ELSE f[n] + SumTo(f, n - 1)

\* np.dot(a, b) for a of shape (r, Dim) and b of shape (Dim, Dim)
Dot(a, b) ==
  [i \in 1..Len(a) |->
    [j \in 1..Dim |-> SumTo([k \in 1..Dim |-> a[i][k] * b[k][j]], Dim)]]

\* the sequence s without its j-th element
Drop(s, j) == SubSeq(s, 1, j - 1) \o SubSeq(s, j + 1, Len(s))

\* determinant of the sub-matrix of m on rows rs and columns cs, by
\* expansion along the first of the rows
RECURSIVE Det(_, _, _)
Det(m, rs, cs) ==
  IF Len(rs) = 1 THEN m[rs[1]][cs[1]]
  ELSE SumTo([j \in 1..Len(cs) |->
               (IF j % 2 = 1 THEN 1 ELSE -1) * m[rs[1]][cs[j]]
                 * Det(m, Tail(rs), Drop(cs, j))],
             Len(cs))

\* the inverse of a square integer matrix of determinant 1 or -1 (every rigid
\* body matrix of the model): the adjugate divided by the determinant d, and
\* dividing by d is multiplying by d when d is 1 or -1
MatInv(m) ==
  LET all == [k \in 1..Len(m) |-> k]
      d == Det(m, all, all)
  IN  [i \in 1..Len(m) |->
        [j \in 1..Len(m) |->
          (IF (i + j) % 2 = 0 THEN 1 ELSE -1)
            * Det(m, Drop(all, j), Drop(all, i)) * d]]

\* rotation by 90 degrees about z followed by a shift along x
RotZ == << <<0, -1, 0, 1>>, <<1, 0, 0, 0>>, <<0, 0, 1, 0>>, <<0, 0, 0, 1>> >>

\* a pure translation
Shift == << <<1, 0, 0, 0>>, <<0, 1, 0, 2>>, <<0, 0, 1, -1>>, <<0, 0, 0, 1>> >>

\* the matrices an external rigid estimator may return
EstMats == {RotZ, Shift}

\* the matrices a translation-only estimation may return
TransMats == {Shift}

\* MatInv of the matrices the estimators return, computed once
EstInverse == [m \in EstMats \cup TransMats \cup {Identity} |-> MatInv(m)]

\* np.linalg.inv(v): a matrix for a matrix, LinAlgError for anything else
\* (None, a file path)
CanInv(v) == v.kind = "mat" /\ Len(v.m) = Dim

Inv(v) == Mat(IF v.m \in DOMAIN EstInverse THEN EstInverse[v.m] ELSE MatInv(v.m))

\* np.concatenate(mats, axis=0)
RECURSIVE Concatenate(_)
Concatenate(mats) ==
  IF Len(mats) = 0 THEN <<>> ELSE Head(mats) \o Concatenate(Tail(mats))

\* rows 4*vol .. 4*vol+3 of a concatenated matrix set (vol is 0-based)
VolMat(rows, vol) == SubSeq(rows, Dim * vol + 1, Dim * vol + Dim)

(***************************************************************************)
(* Workspace                                                               *)
(***************************************************************************)
NoNodes == [k \in {} |-> None]

\* attribute read: an unset attribute is None
Get(nodes, name) == IF name \in DOMAIN nodes THEN nodes[name] ELSE None

\* attribute write: the node is created on first write
Put(nodes, name, v) ==
  [k \in (DOMAIN nodes) \cup {name} |-> IF k = name THEN v ELSE nodes[k]]

Scope(nodes) == [kind |-> "wsp", nodes |-> nodes]

Top(W, name) == Get(W.wsp, name)

SetTop(W, name, v) == [W EXCEPT !.wsp = Put(@, name, v)]

HasScope(W, scope) == Top(W, scope).kind = "wsp"

\* wsp.<scope>.<name>, for an existing scope
Sub(W, scope, name) == Get(Top(W, scope).nodes, name)

SetSub(W, scope, name, v) ==
  SetTop(W, scope, Scope(Put(Top(W, scope).nodes, name, v)))

\* wsp.sub(scope)
MakeSub(W, scope) == SetTop(W, scope, Scope(NoNodes))

\* wsp.ifnone(name, default)
IfNone(W, name, default) ==
  IF IsNone(Top(W, name)) THEN default ELSE Top(W, name)

\* wsp.isdone(stage) and wsp.done(stage)
IsDone(W, stage) == stage \in W.done

MarkDone(W, stage) == [W EXCEPT !.done = @ \cup {stage}]

Ok(W) == W.err = "none"

Raise(W, e) == [W EXCEPT !.err = e, !.ret = None]

Return(W, v) == [W EXCEPT !.ret = v]

\* one invocation of an external tool
Call(W, c) == [W EXCEPT !.trace = Append(@, c)]

\* a local variable: v is computed once and named in the statements F
Bind(v, F(_)) == F(v)

\* statement sequencing: the statements F run on what W leaves unless W
\* raised, and an exception propagates
Then(W, F(_)) == IF Ok(W) THEN F(W) ELSE W

(***************************************************************************)
(* External collaborators (FSL tools and the struc / brain modules): each  *)
(* records its invocation in the trace and returns its output in ret.  A   *)
(* tool handed no image where it needs one fails, and MCFLIRT, EPI_REG and *)
(* the segmenter may fail on any input.  Estimated matrices, sample values *)
(* and these outcomes are chosen by the caller of the action.              *)
(***************************************************************************)
ToolError(W, c) == Raise(Call(W, c), "ToolError")

\* an external estimator exits with an error and estimates nothing
NoEst == <<>>

\* img.mean(): the mean over volumes
Mean(img) == Img(img.name, 1, img.iaf, img.data, Append(img.proc, "mean"))

\* brain.brain(wsp, img, thresh=0.2): brain extraction
Brain(W, img) ==
  LET c == [tool |-> "bet", img |-> img]
  IN  IF IsNone(img) THEN ToolError(W, c)
      ELSE Return(Call(W, c),
                  Img(img.name, img.nvols, img.iaf, img.data, Append(img.proc, "brain")))

\* fsl.flirt(img, ref, omat=LOAD, schedule=, init=, dof=): rigid estimation;
\* returns the registered image and the matrix m
Flirt(W, img, ref, schedule, init, dof, m) ==
  LET c == [tool |-> "flirt", img |-> img, ref |-> ref, schedule |-> schedule,
            init |-> init, dof |-> dof, omat |-> Mat(m)]
  IN  IF IsNone(img) \/ IsNone(ref) THEN ToolError(W, [c EXCEPT !.omat = None])
      ELSE Return(Call(W, c),
                  [kind |-> "tuple",
                   out |-> Img(img.name, img.nvols, img.iaf, img.data,
                               Append(img.proc, "flirt")),
                   omat |-> Mat(m)])

\* epi_reg(epi, t1, t1brain, wmseg, init, ...): boundary-based refinement;
\* returns the registered image, the matrix m and, with a fieldmap, a warp
\* in structural space, or exits with an error (m is NoEst)
EpiReg(W, epi, t1, t1brain, wmseg, init, fmap, m) ==
  LET c == [tool |-> "epi_reg", epi |-> epi, t1 |-> t1, t1brain |-> t1brain,
            wmseg |-> wmseg, init |-> init, fmap |-> fmap, out |-> Mat(m)]
  IN  IF IsNone(epi) \/ IsNone(t1) \/ m = NoEst
      THEN ToolError(W, [c EXCEPT !.out = None])
      ELSE Return(Call(W, c),
                  [kind |-> "tuple",
                   img |-> Img(epi.name, epi.nvols, epi.iaf, epi.data,
                               Append(epi.proc, "epi_reg")),
                   out |-> Mat(m),
                   out_warp |-> IF IsNone(fmap) THEN None
                                ELSE Warp(<<"fmap">>, None, t1.name)])

\* fsl.convertwarp(ref, warp1, warp2, postmat, jacobian=): composes the
\* warps, in order, and the affine into one field; jac is the Jacobian image
\* it computes when one is asked for, else None
ConvertWarp(W, ref, warps, postmat, jac) ==
  LET allparts == Concatenate([i \in 1..Len(warps) |-> warps[i].parts])
      out == Warp(allparts, postmat, ref.name)
      c == [tool |-> "convertwarp", ref |-> ref, warps |-> warps,
            postmat |-> postmat, out |-> out, jacobian |-> jac]
  IN  IF IsNone(ref) \/ \E i \in 1..Len(warps) : warps[i].kind # "warp"
      THEN ToolError(W, [tool |-> "convertwarp", ref |-> ref, warps |-> warps,
                         postmat |-> postmat, out |-> None, jacobian |-> None])
      ELSE Return(Call(W, c), [kind |-> "tuple", out |-> out, jacobian |-> jac])

\* fsl.applywarp(img, ref, warp=, premat=, interp=): one resampling of img
\* onto the grid of ref; d is the sample value of the resampled image
ApplyWarp(W, img, ref, warp, premat, interp, d) ==
  LET out == Img(img.name, img.nvols, img.iaf, d, Append(img.proc, "applywarp"))
      c == [tool |-> "applywarp", img |-> img, ref |-> ref, warp |-> warp,
            premat |-> premat, interp |-> interp, out |-> out]
  IN  IF IsNone(img) \/ IsNone(ref)
      THEN ToolError(W, [tool |-> "applywarp", img |-> img, ref |-> ref,
                         warp |-> warp, premat |-> premat, interp |-> interp,
                         out |-> None])
      ELSE Return(Call(W, c), out)

\* fsl.applyxfm(img, ref, mat, interp=): one linear resampling of img; d is
\* the sample value of the resampled image
ApplyXfm(W, img, ref, mat, interp, d) ==
  LET c == [tool |-> "applyxfm", img |-> img, ref |-> ref, mat |-> mat,
            interp |-> interp]
  IN  IF IsNone(img) \/ IsNone(ref) \/ IsNone(mat) THEN ToolError(W, c)
      ELSE Return(Call(W, c),
                  Img(img.name, img.nvols, img.iaf, d, Append(img.proc, "applyxfm")))

\* fsl.invwarp(warp, ref, out=LOAD): the inverse of a warp field on the grid
\* of ref
InvWarp(W, warp, ref) ==
  LET c == [tool |-> "invwarp", warp |-> warp, ref |-> ref]
  IN  IF IsNone(ref) \/ warp.kind # "warp" THEN ToolError(W, c)
      ELSE Return(Call(W, c), [kind |-> "warp", inverseof |-> warp])

\* fsl.fnirt(img, aff=, cout=LOAD): non-linear estimation seeded by aff;
\* returns a coefficient field
Fnirt(W, img, aff) ==
  LET c == [tool |-> "fnirt", img |-> img, aff |-> aff]
  IN  IF IsNone(img) THEN ToolError(W, c)
      ELSE Return(Call(W, c), Warp(<<"fnirt">>, None, "MNI152_T1_2mm"))

\* fsl.mcflirt(img, reffile=, mats=LOAD): one matrix per volume, est[v] for
\* volume v; what the tool registers to when it is given no reference file
\* is its own choice, and so are the matrices it returns
McflirtMats(img, reffile, est) == [v \in 1..img.nvols |-> est[v]]

Mcflirt(W, img, reffile, est) ==
  LET c == [tool |-> "mcflirt", img |-> img, reffile |-> reffile,
            mats |-> McflirtMats(img, reffile, est)]
  IN  IF IsNone(img) \/ est = NoEst
      THEN ToolError(W, [tool |-> "mcflirt", img |-> img, reffile |-> reffile,
                         mats |-> <<>>])
      ELSE Return(Call(W, c), [kind |-> "tuple", mats |-> c.mats])

\* fsl.topup(imain, datain, config, out=LOAD, fout=LOAD): the distortion
\* field of a phase-reversed pair
Topup(W, imain, datain) ==
  LET c == [tool |-> "topup", imain |-> imain, datain |-> datain]
  IN  IF IsNone(imain) THEN ToolError(W, c)
      ELSE Return(Call(W, c),
                  [kind |-> "tuple", fout |-> Warp(<<"topup">>, None, imain.name)])

\* struc.init(wsp): create the structural sub-workspace if not already there
\* and load the structural image into it
StrucInit(W) ==
  IF HasScope(W, "structural") THEN W
  ELSE Bind(MakeSub(W, "structural"), LAMBDA W1 :
       Bind(IF IsNone(Top(W, "struc")) THEN W1
            ELSE SetSub(W1, "structural", "struc", Top(W, "struc")), LAMBDA W2 :
         IF IsNone(Top(W, "struc_brain")) THEN W2
         ELSE SetSub(W2, "structural", "brain", Top(W, "struc_brain"))))

\* struc.segment(wsp): tissue segmentation of the structural image, done
\* once; the segmenter, when it is run, succeeds (ok) or exits with an error
Segment(W, ok) ==
  Bind(StrucInit(W), LAMBDA W1 :
  Bind(Sub(W1, "structural", "struc"), LAMBDA t1 :
    IF IsNone(t1) \/ ~IsNone(Sub(W1, "structural", "wm_seg")) THEN W1
    ELSE IF ~ok THEN ToolError(W1, [tool |-> "fast", img |-> t1])
    ELSE SetSub(Call(W1, [tool |-> "fast", img |-> t1]), "structural", "wm_seg",
                Img(t1.name, 1, "", t1.data, Append(t1.proc, "wm_seg")))))

(***************************************************************************)
(* reg.py                                                                  *)
(***************************************************************************)
\* mutant of RegInit: the sub-workspace is created anew at every call
RegInit_Always(W) == MakeSub(W, "reg")

\* init(wsp): create the registration sub-workspace if not already there
RegInit(W) == IF IsNone(Top(W, "reg")) THEN MakeSub(W, "reg") ELSE W

\* mutant of GetRegfrom: the calibration image is preferred to the mean of
\* a tag/control interleaved series
GetRegfrom_CalibFirst(W) ==
  Bind(RegInit(W), LAMBDA W0 :
  Bind(Top(W0, "asldata"), LAMBDA asl :
    LET Store(X) == Then(X, LAMBDA X1 : SetSub(X1, "reg", "regfrom", X1.ret))
    IN  IF ~IsNone(Sub(W0, "reg", "regfrom")) THEN W0
        ELSE IF ~IsNone(Top(W0, "regfrom"))
        THEN SetSub(W0, "reg", "regfrom", Top(W0, "regfrom"))
        ELSE IF IsNone(asl) THEN Raise(W0, "AttributeError")
        ELSE IF ~IsNone(Top(W0, "calib")) THEN Store(Brain(W0, Top(W0, "calib")))
        ELSE Store(Brain(W0, Mean(asl)))))

\* get_regfrom(wsp): choose the registration-target image, once
GetRegfrom(W) ==
  Bind(RegInit(W), LAMBDA W0 :
  Bind(Top(W0, "asldata"), LAMBDA asl :
    LET Store(X) == Then(X, LAMBDA X1 : SetSub(X1, "reg", "regfrom", X1.ret))
    IN  IF ~IsNone(Sub(W0, "reg", "regfrom")) THEN W0
        ELSE IF ~IsNone(Top(W0, "regfrom"))
        THEN SetSub(W0, "reg", "regfrom", Top(W0, "regfrom"))
        ELSE IF IsNone(asl) THEN Raise(W0, "AttributeError")
        ELSE IF asl.iaf \in {"tc", "ct"} THEN Store(Brain(W0, Mean(asl)))
        ELSE IF ~IsNone(Top(W0, "calib")) THEN Store(Brain(W0, Top(W0, "calib")))
        ELSE Store(Brain(W0, Mean(asl)))))

\* mutant of RegFlirt: the second estimation is seeded by the supplied
\* initial transform, not by the first estimation
RegFlirt_Unseeded(W, img, ref, initial_transform, m1, m2) ==
  IF IsNone(img) THEN Raise(W, "AttributeError")
  ELSE Then(Flirt(W, img, ref, Str("xyztrans.sch"), initial_transform, None, m1),
            LAMBDA W1 :
         Flirt(W1, img, ref, IfNone(W1, "flirtsch", Str("simple3D.sch")),
               initial_transform, IfNone(W1, "dof", Num(6)), m2))

\* reg_flirt(wsp, img, ref, initial_transform): translation-only estimation,
\* then the full estimation seeded by it; m1 and m2 are the matrices the two
\* estimations return
RegFlirt(W, img, ref, initial_transform, m1, m2) ==
  IF IsNone(img) THEN Raise(W, "AttributeError")
  ELSE Then(Flirt(W, img, ref, Str("xyztrans.sch"), initial_transform, None, m1),
            LAMBDA W1 :
         Flirt(W1, img, ref, IfNone(W1, "flirtsch", Str("simple3D.sch")),
               W1.ret.omat, IfNone(W1, "dof", Num(6)), m2))

\* reg_bbr(wsp): segmentation, then boundary-based registration seeded by
\* the stored asl2struc; ok is the outcome of the segmenter, mb the matrix
\* EPI_REG returns
RegBbr(W, ok, mb) ==
  Then(Segment(W, ok), LAMBDA W1 :
    EpiReg(W1, Sub(W1, "reg", "regfrom"), Sub(W1, "structural", "struc"),
           Sub(W1, "structural", "brain"), Sub(W1, "structural", "wm_seg"),
           Sub(W1, "reg", "asl2struc"), None, mb))

\* reg_asl2calib(wsp)
RegAsl2Calib(W, m1, m2) ==
  Bind(RegInit(W), LAMBDA W0 :
    IF ~IsNone(Top(W0, "calib")) /\ IsNone(Sub(W0, "reg", "asl2calib"))
    THEN Then(GetRegfrom(W0), LAMBDA W1 :
         Then(RegFlirt(W1, Sub(W1, "reg", "regfrom"), Top(W1, "calib"), None, m1, m2),
              LAMBDA W2 :
         Bind(SetSub(W2, "reg", "asl2calib", W2.ret.omat), LAMBDA W3 :
           Return(SetSub(W3, "reg", "calib2asl", Inv(Sub(W3, "reg", "asl2calib"))),
                  None))))
    ELSE W0)

\* the flirt branch of reg_asl2struc
RegAsl2StrucFlirt(W, m1, m2) ==
  Then(RegFlirt(W, Sub(W, "reg", "regfrom"), Sub(W, "structural", "struc"),
                Sub(W, "reg", "asl2struc"), m1, m2), LAMBDA W1 :
    SetSub(SetSub(W1, "reg", "regto", W1.ret.out), "reg", "asl2struc", W1.ret.omat))

\* the bbr branch of reg_asl2struc
RegAsl2StrucBbr(W, ok, mb) ==
  Then(RegBbr(W, ok, mb), LAMBDA W1 :
    SetSub(SetSub(W1, "reg", "regto", W1.ret.img), "reg", "asl2struc", W1.ret.out))

\* mutant of RegAsl2StrucRun: the inverse is computed only when none is
\* stored yet
RegAsl2StrucRun_StaleInverse(W, flirt, bbr, m1, m2, ok, mb) ==
  Then(GetRegfrom(W), LAMBDA W1 :
  Then(IF flirt THEN RegAsl2StrucFlirt(W1, m1, m2) ELSE W1, LAMBDA W2 :
  Then(IF bbr THEN RegAsl2StrucBbr(W2, ok, mb) ELSE W2, LAMBDA W3 :
  Bind(Sub(W3, "reg", "asl2struc"), LAMBDA fwd :
    IF ~CanInv(fwd) THEN Raise(W3, "LinAlgError")
    ELSE IF ~IsNone(Sub(W3, "reg", "struc2asl")) THEN Return(W3, None)
    ELSE Return(SetSub(W3, "reg", "struc2asl", Inv(fwd)), None)))))

\* the estimation part of reg_asl2struc, entered when a structural image
\* exists
RegAsl2StrucRun(W, flirt, bbr, m1, m2, ok, mb) ==
  Then(GetRegfrom(W), LAMBDA W1 :
  Then(IF flirt THEN RegAsl2StrucFlirt(W1, m1, m2) ELSE W1, LAMBDA W2 :
  Then(IF bbr THEN RegAsl2StrucBbr(W2, ok, mb) ELSE W2, LAMBDA W3 :
  Bind(Sub(W3, "reg", "asl2struc"), LAMBDA fwd :
    IF ~CanInv(fwd) THEN Raise(W3, "LinAlgError")
    ELSE Return(SetSub(W3, "reg", "struc2asl", Inv(fwd)), None)))))

\* reg_asl2struc(wsp, flirt=True, bbr=False)
RegAsl2Struc(W, flirt, bbr, m1, m2, ok, mb) ==
  Bind(StrucInit(RegInit(W)), LAMBDA W0 :
    IF ~IsNone(Sub(W0, "structural", "struc"))
    THEN RegAsl2StrucRun(W0, flirt, bbr, m1, m2, ok, mb)
    ELSE W0)

\* the part of reg_struc2std that takes a precomputed transform from the
\* fslanat directory: the path of the coefficient field if that file
\* exists, else the path of the linear matrix if that file exists
Struc2StdFromFslanat(W) ==
  LET dir == Top(W, "fslanat")
  IN  IF IsNone(dir) THEN W
      ELSE IF "T1_to_MNI_nonlin_coeff" \in dir.files
      THEN SetSub(W, "reg", "struc2std", [kind |-> "path", file |-> "T1_to_MNI_nonlin_coeff"])
      ELSE IF "T1_to_MNI_lin.mat" \in dir.files
      THEN SetSub(W, "reg", "struc2std", [kind |-> "path", file |-> "T1_to_MNI_lin.mat"])
      ELSE W

\* the part of reg_struc2std that computes the transform: FLIRT to the
\* standard brain, then FNIRT seeded by it if requested
Struc2StdCompute(W, fnirt, m) ==
  Bind(StrucInit(W), LAMBDA W0 :
  Then(Flirt(W0, Sub(W0, "structural", "struc"),
             Img("MNI152_T1_2mm_brain", 1, "", Rat(1, 1), <<>>), None, None, None, m),
       LAMBDA W1 :
  Bind(SetSub(W1, "reg", "struc2std", W1.ret.omat), LAMBDA W2 :
    IF ~fnirt THEN W2
    ELSE Then(Fnirt(W2, Sub(W2, "structural", "struc"), Sub(W2, "reg", "struc2std")),
              LAMBDA W3 : SetSub(W3, "reg", "struc2std", W3.ret)))))

\* the part of reg_struc2std that stores the inverse: INVWARP for an Image,
\* the matrix inverse otherwise
Struc2StdInverse(W) ==
  Bind(Sub(W, "reg", "struc2std"), LAMBDA fwd :
    IF IsImage(fwd)
    THEN IF ~HasScope(W, "structural") THEN Raise(W, "AttributeError")
         ELSE Then(InvWarp(W, Sub(W, "structural", "struc"),
                           Sub(W, "reg", "struc2std_warp")), LAMBDA W1 :
                Return(SetSub(W1, "reg", "std2struc", W1.ret), None))
    ELSE IF ~CanInv(fwd) THEN Raise(W, "LinAlgError")
    ELSE SetSub(W, "reg", "std2struc", Inv(fwd)))

\* reg_struc2std(wsp, fnirt=False); m is the matrix FLIRT returns
RegStruc2Std(W, fnirt, m) ==
  Bind(RegInit(W), LAMBDA W0 :
    IF ~IsNone(Sub(W0, "reg", "std2struc")) THEN W0
    ELSE Bind(Struc2StdFromFslanat(W0), LAMBDA W1 :
         Then(IF IsNone(Sub(W1, "reg", "struc2std"))
              THEN Struc2StdCompute(W1, fnirt, m) ELSE W1,
              LAMBDA W2 : Struc2StdInverse(W2))))

\* transform(wsp, img, trans, ref, use_applywarp, interp); d is the sample
\* value of the resampled image
Transform(W, img, trans, ref, use_applywarp, d) ==
  IF IsNone(trans) THEN Raise(W, "ValueError")
  ELSE IF ~use_applywarp THEN ApplyXfm(W, img, ref, trans, "trilinear", d)
  ELSE ApplyWarp(W, img, ref, None, trans, "trilinear", d)

\* struc2asl(wsp, img, **kwargs)
Struc2Asl(W, img, use_applywarp, d) ==
  Bind(RegInit(W), LAMBDA W0 :
    Transform(W0, img, Sub(W0, "reg", "struc2asl"), Sub(W0, "reg", "regfrom"),
              use_applywarp, d))

\* asl2struc(wsp, img, **kwargs): the arguments are evaluated before
\* transform is entered, and wsp.structural.struc needs the structural
\* sub-workspace
Asl2Struc(W, img, use_applywarp, d) ==
  Bind(RegInit(W), LAMBDA W0 :
    IF ~HasScope(W0, "structural") THEN Raise(W0, "AttributeError")
    ELSE Transform(W0, img, Sub(W0, "reg", "asl2struc"),
                   Sub(W0, "structural", "struc"), use_applywarp, d))

(***************************************************************************)
(* corrections.py                                                          *)
(***************************************************************************)
Pedirs == {"x", "-x", "y", "-y", "z", "-z"}

\* "%f" % echospacing: the echo spacing printed with six decimals.  An echo
\* spacing is a number of tenths of a microsecond below one second (0.005 s
\* is 50000) held as the nearest binary double, a 53-bit mantissa m with
\* es * 2^e / 10^7 rounded to m; the printed value is the whole number of
\* microseconds nearest to that double.  When the seventh decimal is 5 the
\* side the double lies on decides: p and r are the remainders of
\* es * 2^(e-1) and es * 2^e modulo 10^7, the double lies above the decimal
\* value when the mantissa was rounded up, and a double equal to the decimal
\* value is printed half-to-even.  BinExp counts from j the doublings that
\* bring v to 10^7 or above; DoubleMod is r * 2^k modulo 10^7, seven
\* doublings at a time
Fmt6(es) ==
  LET RECURSIVE BinExp(_, _)
      BinExp(v, j) == IF v >= 10000000 THEN j ELSE BinExp(2 * v, j + 1)
      RECURSIVE DoubleMod(_, _)
      DoubleMod(r, k) ==
        IF k = 0 THEN r
        ELSE IF k >= 7 THEN DoubleMod((128 * r) % 10000000, k - 7)
        ELSE DoubleMod((2 * r) % 10000000, k - 1)
      p == DoubleMod(es, 51 + BinExp(es, 0))
      q == (2 * p) % 10000000
      up == IF q = 0 THEN (es \div 10) % 2 = 1
            ELSE IF 2 * q = 10000000 THEN 2 * p >= 10000000
            ELSE 2 * q > 10000000
  IN  IF es % 10 # 5 THEN ((es + 5) \div 10) * 10
      ELSE (es \div 10) * 10 + (IF up THEN 10 ELSE 0)

\* mutant of TopupParams: the rows of direction -y are those of direction y
TopupParams_SwappedY(pedir, es) ==
  LET f == Fmt6(es)
  IN  CASE pedir = "x"  -> << << 1,  0,  0, f>>, <<-1,  0,  0, f>> >>
        [] pedir = "-x" -> << <<-1,  0,  0, f>>, << 1,  0,  0, f>> >>
        [] pedir = "y"  -> << << 0,  1,  0, f>>, << 0, -1,  0, f>> >>
        [] pedir = "-y" -> << << 0,  1,  0, f>>, << 0, -1,  0, f>> >>
        [] pedir = "z"  -> << << 0,  0,  1, f>>, << 0,  0, -1, f>> >>
        [] pedir = "-z" -> << << 0,  0, -1, f>>, << 0,  0,  1, f>> >>

\* topup_params[pedir] % (echospacing, echospacing): the two rows of the
\* phase-encoding parameter table
TopupParams(pedir, es) ==
  LET f == Fmt6(es)
  IN  CASE pedir = "x"  -> << << 1,  0,  0, f>>, <<-1,  0,  0, f>> >>
        [] pedir = "-x" -> << <<-1,  0,  0, f>>, << 1,  0,  0, f>> >>
        [] pedir = "y"  -> << << 0,  1,  0, f>>, << 0, -1,  0, f>> >>
        [] pedir = "-y" -> << << 0, -1,  0, f>>, << 0,  1,  0, f>> >>
        [] pedir = "z"  -> << << 0,  0,  1, f>>, << 0,  0, -1, f>> >>
        [] pedir = "-z" -> << << 0,  0, -1, f>>, << 0,  0,  1, f>> >>

\* the body of get_cblip_correction, entered when the stage is not done
CblipRun(W) ==
  LET pedir == Top(W, "pedir")
      es == Top(W, "echospacing")
      calib == Top(W, "calib")
      cblip == Top(W, "cblip")
  IN  IF pedir.kind # "str" \/ pedir.v \notin Pedirs THEN Raise(W, "KeyError")
      ELSE IF es.kind # "num" THEN Raise(W, "TypeError")
      ELSE IF IsNone(calib) \/ IsNone(cblip) THEN Raise(W, "AttributeError")
      ELSE Bind(SetTop(W, "calib_blipped",
                       Img(calib.name, 2, "", calib.data, Append(calib.proc, "stack"))),
                LAMBDA W1 :
           Then(Topup(W1, Top(W1, "calib_blipped"), TopupParams(pedir.v, es.v)),
                LAMBDA W2 : MarkDone(W2, "get_cblip_correction")))

\* get_cblip_correction(wsp)
GetCblipCorrection(W) ==
  IF IsDone(W, "get_cblip_correction") THEN W ELSE CblipRun(W)

\* the else branch of get_fieldmap_correction: registration, segmentation,
\* EPI_REG with the fieldmap, and the warp brought to ASL space
FieldmapRun(W, m1, m2, ok, me) ==
  Then(RegAsl2Struc(W, TRUE, FALSE, m1, m2, ok, m2), LAMBDA W1 :
  Then(Segment(W1, ok), LAMBDA W2 :
  Then(EpiReg(W2, Top(W2, "pwi"), Top(W2, "struc"), Top(W2, "struc_brain"),
              Top(W2, "wm_seg_struc"), Top(W2, "asl2struc"), Top(W2, "fmap"), me),
       LAMBDA W3 :
  Bind(SetTop(SetTop(W3, "fmap_warp_struc", W3.ret.out_warp),
              "fmap_asl2struc", W3.ret.out), LAMBDA W4 :
  Bind(SetTop(W4, "fmap_struc2asl", Inv(Top(W4, "fmap_asl2struc"))), LAMBDA W5 :
  Then(ConvertWarp(W5, Top(W5, "asldata_mean"), <<Top(W5, "fmap_warp_struc")>>,
                   Top(W5, "fmap_struc2asl"), None),
       LAMBDA W6 : SetTop(W6, "fmap_warp", W6.ret.out)))))))

\* mutant of GetFieldmapCorrection: pedir and echospacing are not tested
GetFieldmapCorrection_NoPedirCheck(W, m1, m2, ok, me) ==
  IF IsDone(W, "get_fieldmap_correction") THEN W
  ELSE Then(IF IsNone(Top(W, "fmap")) \/ IsNone(Top(W, "fmapmag"))
               \/ IsNone(Top(W, "fmapmagbrain"))
            THEN W
            ELSE FieldmapRun(W, m1, m2, ok, me),
            LAMBDA W1 : MarkDone(W1, "get_fieldmap_correction"))

\* mutant of GetFieldmapCorrection: a skipped stage is not marked done
GetFieldmapCorrection_DoneIfRun(W, m1, m2, ok, me) ==
  IF IsDone(W, "get_fieldmap_correction") THEN W
  ELSE IF IsNone(Top(W, "fmap")) \/ IsNone(Top(W, "fmapmag"))
          \/ IsNone(Top(W, "fmapmagbrain"))
  THEN W
  ELSE IF IsNone(Top(W, "pedir")) \/ IsNone(Top(W, "echospacing"))
  THEN W
  ELSE Then(FieldmapRun(W, m1, m2, ok, me),
            LAMBDA W1 : MarkDone(W1, "get_fieldmap_correction"))

\* get_fieldmap_correction(wsp)
GetFieldmapCorrection(W, m1, m2, ok, me) ==
  IF IsDone(W, "get_fieldmap_correction") THEN W
  ELSE Then(IF IsNone(Top(W, "fmap")) \/ IsNone(Top(W, "fmapmag"))
               \/ IsNone(Top(W, "fmapmagbrain"))
            THEN W
            ELSE IF IsNone(Top(W, "pedir")) \/ IsNone(Top(W, "echospacing"))
            THEN W
            ELSE FieldmapRun(W, m1, m2, ok, me),
            LAMBDA W1 : MarkDone(W1, "get_fieldmap_correction"))

\* mutant of MiddleVol: the lower middle of an even number of volumes
MiddleVol_Low(n) == (n - 1) \div 2

\* the middle volume: int(float(n)/2)
MiddleVol(n) == n \div 2

\* the calibration branch of get_motion_correction: the calibration image is
\* the reference, and every matrix is composed with the inverse of the
\* middle volume's
MotionWithCalib(W, est) ==
  Then(Mcflirt(W, Top(W, "asldata"), Top(W, "calib"), est), LAMBDA W1 :
  Bind(W1.ret.mats, LAMBDA mats :
  Bind(SetTop(W1, "asl2calib", Mat(mats[MiddleVol(Len(mats)) + 1])), LAMBDA W2 :
  Bind(SetTop(W2, "calib2asl", Inv(Top(W2, "asl2calib"))), LAMBDA W3 :
  Bind(Top(W3, "calib2asl").m, LAMBDA calib2asl :
    Return(W3, [kind |-> "tuple",
                mats |-> [v \in 1..Len(mats) |-> Dot(mats[v], calib2asl)]]))))))

\* the other branch of get_motion_correction: the name and the number of
\* volumes of the ASL series are read for the report, then MCFLIRT runs with
\* its own reference
MotionNoCalib(W, est) ==
  IF IsNone(Top(W, "asldata")) THEN Raise(W, "AttributeError")
  ELSE Mcflirt(W, Top(W, "asldata"), None, est)

\* mutant of MotionRun: the calibration branch is taken whether or not a
\* calibration image exists
MotionRun_AlwaysCalib(W, est) ==
  Then(MotionWithCalib(W, est), LAMBDA W1 :
    MarkDone(SetTop(W1, "asldata_mc_mats", Mat(Concatenate(W1.ret.mats))),
             "get_motion_correction"))

\* mutant of MotionRun: the stage is marked done before the estimation
MotionRun_MarkFirst(W, est) ==
  Then(IF Truthy(Top(W, "calib"))
       THEN MotionWithCalib(MarkDone(W, "get_motion_correction"), est)
       ELSE MotionNoCalib(MarkDone(W, "get_motion_correction"), est), LAMBDA W1 :
    SetTop(W1, "asldata_mc_mats", Mat(Concatenate(W1.ret.mats))))

\* the body of get_motion_correction, entered when the stage is not done
MotionRun(W, est) ==
  Then(IF Truthy(Top(W, "calib")) THEN MotionWithCalib(W, est)
       ELSE MotionNoCalib(W, est), LAMBDA W1 :
    MarkDone(SetTop(W1, "asldata_mc_mats", Mat(Concatenate(W1.ret.mats))),
             "get_motion_correction"))

\* mutant of GetMotionCorrection: the isdone check is missing
GetMotionCorrection_NoIsDone(W, est) == MotionRun(W, est)

\* get_motion_correction(wsp); est gives the matrix MCFLIRT estimates for
\* each volume
GetMotionCorrection(W, est) ==
  IF IsDone(W, "get_motion_correction") THEN W ELSE MotionRun(W, est)

\* the bias-field branch of get_sensitivity_correction
SensitivityFromBias(W, m1, m2, ok, d) ==
  Then(Segment(W, ok), LAMBDA W1 :
  Bind(Top(W1, "bias"), LAMBDA bias :
  Bind(Img(bias.name, 1, "", RDiv(Rat(1, 1), bias.data),
           Append(bias.proc, "reciprocal")), LAMBDA sens :
  Then(RegAsl2Struc(W1, TRUE, FALSE, m1, m2, ok, m2), LAMBDA W2 :
  Then(ApplyXfm(W2, sens, Top(W2, "regfrom"), Top(W2, "struc2asl"), "trilinear", d),
       LAMBDA W3 : SetTop(W3, "sensitivity", W3.ret))))))

\* get_sensitivity_correction(wsp)
GetSensitivityCorrection(W, m1, m2, ok, d) ==
  LET calib == Top(W, "calib")
      cref == Top(W, "cref")
  IN  IF ~IsNone(Top(W, "sensitivity")) THEN W
      ELSE IF IsTrue(Top(W, "senscorr_off")) THEN W
      ELSE IF ~IsNone(Top(W, "isen")) THEN W
      ELSE IF ~IsNone(calib) /\ ~IsNone(cref)
      THEN SetTop(W, "sensitivity",
                  Img(calib.name, 1, "", RDiv(calib.data, cref.data),
                      Append(calib.proc, "ratio")))
      ELSE IF IsTrue(Top(W, "senscorr_auto")) /\ ~IsNone(Top(W, "bias"))
      THEN SensitivityFromBias(W, m1, m2, ok, d)
      ELSE W

\* correct_img(wsp, img, linear_mat): one resampling with the combined warp
\* and the linear matrix; d is the sample value of the resampled image.  If
\* a Jacobian is stored the voxel array is multiplied by the Jacobian node
\* itself, not by its voxel array, which raises
CorrectImg(W, img, linear_mat, d) ==
  Then(ApplyWarp(W, img, Top(W, "asldata_mean"), Top(W, "total_warp"),
                 linear_mat, "sinc", d), LAMBDA W1 :
    IF Truthy(Top(W1, "jacobian")) THEN Raise(W1, "TypeError") ELSE W1)

\* the warps apply_corrections collects: fieldmap first, then the
\* user-supplied gradient distortion warp
ActiveWarps(W) ==
  (IF Truthy(Top(W, "fmap_warp")) THEN <<Top(W, "fmap_warp")>> ELSE <<>>)
  \o (IF Truthy(Top(W, "gdc_warp")) THEN <<Top(W, "gdc_warp")>> ELSE <<>>)

\* the part of apply_corrections that turns all warps into one transform
CombineWarps(W, j) ==
  Bind(ActiveWarps(W), LAMBDA warps :
    IF warps # <<>>
    THEN ConvertWarp(W, Top(W, "asldata_mean"), warps, None,
                     Img("jacobian", 1, "", j, <<>>))
    ELSE W)

\* mutant of CorrectAsldata: the current ASL data is resampled, not the
\* original
CorrectAsldata_InPlace(W, d) ==
  Bind(Top(W, "asldata"), LAMBDA cur :
  Then(CorrectImg(W, cur, Top(W, "asldata_mc_mats"), d), LAMBDA W1 :
    SetTop(W1, "asldata",
           Img(cur.name, cur.nvols, cur.iaf, W1.ret.data, W1.ret.proc))))

\* the part of apply_corrections that corrects the ASL data, keeping the ASL
\* metadata of the original
CorrectAsldata(W, d) ==
  Bind(Top(W, "asldata_orig"), LAMBDA orig :
  Then(CorrectImg(W, orig, Top(W, "asldata_mc_mats"), d), LAMBDA W1 :
    SetTop(W1, "asldata",
           Img(orig.name, orig.nvols, orig.iaf, W1.ret.data, W1.ret.proc))))

\* the part of apply_corrections that corrects the calibration images
CorrectCalib(W, d) ==
  IF IsNone(Top(W, "calib_orig")) THEN W
  ELSE Then(CorrectImg(W, Top(W, "calib_orig"), Top(W, "calib2asl"), d[1]),
            LAMBDA W1 :
       Bind(SetTop(W1, "calib", W1.ret), LAMBDA W2 :
       Then(IF IsNone(Top(W2, "cref_orig")) THEN W2
            ELSE Then(CorrectImg(W2, Top(W2, "cref_orig"), Top(W2, "calib2asl"), d[2]),
                      LAMBDA W3 : SetTop(W3, "cref", W3.ret)), LAMBDA W4 :
         IF IsNone(Top(W4, "cblip_orig")) THEN W4
         ELSE Then(CorrectImg(W4, Top(W4, "cref_cblip"), Top(W4, "calib2asl"), d[3]),
                   LAMBDA W5 : SetTop(W5, "cblip", W5.ret)))))

\* mutant of ApplyCorrections: no return when there is nothing to apply
ApplyCorrections_NoReturn(W, j, da, dc) ==
  Then(CombineWarps(W, j), LAMBDA W1 :
  Then(CorrectAsldata(W1, da), LAMBDA W2 : CorrectCalib(W2, dc)))

\* apply_corrections(wsp); j is the sample value of the Jacobian CONVERTWARP
\* computes, da and dc the sample values the resampler returns
ApplyCorrections(W, j, da, dc) ==
  Then(CombineWarps(W, j), LAMBDA W1 :
    IF ActiveWarps(W) = <<>> /\ IsNone(Top(W, "asldata_mc_mats")) THEN W1
    ELSE Then(CorrectAsldata(W1, da), LAMBDA W2 : CorrectCalib(W2, dc)))

\* apply_sensitivity_correction(wsp, *imgs): each corrected image is a plain
\* Image built from the voxel array and the header, without the acquisition
\* order an ASL series carries.  The voxel arrays are divided as they are:
\* the array of a series of several volumes has one dimension more than the
\* array of the field, and their division raises
ApplySensitivityCorrection(W, imgs) ==
  LET sens == Top(W, "sensitivity")
  IN  IF ~IsNone(sens) /\ ~IsTrue(Top(W, "senscorr_off"))
      THEN IF \E i \in 1..Len(imgs) : imgs[i].nvols # sens.nvols
           THEN Raise(W, "ValueError")
           ELSE Return(W, [kind |-> "tuple",
                           imgs |-> [i \in 1..Len(imgs) |->
                                      Img(imgs[i].name, imgs[i].nvols, "",
                                          RDiv(imgs[i].data, sens.data),
                                          Append(imgs[i].proc, "sensitivity"))]])
      ELSE Return(W, [kind |-> "tuple", imgs |-> imgs])

(***************************************************************************)
(* The workspace a run starts from: the attributes its creator gives it,    *)
(* under the names the functions read, with each original image also kept  *)
(* under its _orig name.  gdc_warp is the attribute apply_corrections       *)
(* reads; the command line option --gdcwarp sets the attribute gdcwarp,     *)
(* which no function reads.                                                 *)
(***************************************************************************)
Image(name, data) == Img(name, 1, "", Rat(data, 1), <<>>)

BaseCfg ==
  [nvols |-> 2, iaf |-> "diff", calib |-> FALSE, cref |-> FALSE, cblip |-> FALSE,
   struc |-> FALSE, fmap |-> {}, pedir |-> None, echospacing |-> None,
   gdc_warp |-> FALSE, gdcwarp |-> FALSE, regfrom |-> FALSE, isen |-> FALSE,
   senscorr_off |-> FALSE, senscorr_auto |-> FALSE, bias |-> FALSE,
   fslanat |-> None, dof |-> None]

InputNodes(c) ==
  LET asl == Img("asldata", c.nvols, c.iaf, Rat(5, 1), <<>>)
      Opt(b, nodes) == IF b THEN nodes ELSE {}
  IN  {<<"asldata", asl>>, <<"asldata_orig", asl>>, <<"asldata_mean", Mean(asl)>>,
       <<"pwi", Image("pwi", 3)>>,
       <<"senscorr_off", Bool(c.senscorr_off)>>,
       <<"senscorr_auto", Bool(c.senscorr_auto)>>}
      \cup Opt(c.calib, {<<"calib", Image("calib", 4)>>,
                         <<"calib_orig", Image("calib", 4)>>})
      \cup Opt(c.cref, {<<"cref", Image("cref", 2)>>, <<"cref_orig", Image("cref", 2)>>})
      \cup Opt(c.cblip, {<<"cblip", Image("cblip", 3)>>,
                         <<"cblip_orig", Image("cblip", 3)>>})
      \cup Opt(c.struc, {<<"struc", Image("struc", 7)>>,
                         <<"struc_brain", Image("struc_brain", 7)>>})
      \cup {<<f, Image(f, 1)>> : f \in c.fmap}
      \cup Opt(~IsNone(c.pedir), {<<"pedir", c.pedir>>})
      \cup Opt(~IsNone(c.echospacing), {<<"echospacing", c.echospacing>>})
      \cup Opt(c.gdc_warp, {<<"gdc_warp", Warp(<<"gdc">>, None, "gdc")>>})
      \cup Opt(c.gdcwarp, {<<"gdcwarp", Image("gdcwarp", 1)>>})
      \cup Opt(c.regfrom, {<<"regfrom", Image("regfrom", 6)>>})
      \cup Opt(c.isen, {<<"isen", Image("isen", 2)>>})
      \cup Opt(c.bias, {<<"bias", Image("bias", 2)>>})
      \cup Opt(~IsNone(c.fslanat), {<<"fslanat", c.fslanat>>})
      \cup Opt(~IsNone(c.dof), {<<"dof", c.dof>>})

MkWsp(c) ==
  LET ps == InputNodes(c)
  IN  [k \in {p[1] : p \in ps} |-> (CHOOSE p \in ps : p[1] = k)[2]]

FmapInputs == {"fmap", "fmapmag", "fmapmagbrain"}

\* the sample values the Jacobian of a combined warp may have
JacData == {Rat(1, 1), Rat(2, 1)}

\* the sample values a resampled image may have
ResampledData == {Rat(2, 1), Rat(3, 1)}

\* the workers that may call a stage function on one workspace
Workers == {"w1", "w2"}

InitFrom(cfgs) ==
  /\ wsp \in {MkWsp(c) : c \in cfgs}
  /\ pc = [w \in Workers |-> [at |-> "idle", mats |-> <<>>, inv |-> None]]
  /\ done = {}
  /\ trace = <<>>
  /\ err = "none"
  /\ ret = None
  /\ last = [op |-> "init", args |-> <<>>]

(***************************************************************************)
(* Actions: one call of a function of the two modules on the workspace.    *)
(* An exception is not caught by any function of the modules: it ends the  *)
(* run, so a call is made only when no call has raised.                    *)
(***************************************************************************)
Start == [wsp |-> wsp, done |-> done, trace |-> <<>>, err |-> "none", ret |-> None]

\* the call is made, W is what it leaves; a function without return
\* statement returns None
Finish(W, op, args, returns) ==
  /\ err = "none"
  /\ wsp' = W.wsp
  /\ done' = W.done
  /\ trace' = W.trace
  /\ err' = W.err
  /\ ret' = IF returns /\ Ok(W) THEN W.ret ELSE None
  /\ last' = [op |-> op, args |-> args]
  /\ pc' = pc

DoGetCblipCorrection ==
  Finish(GetCblipCorrection(Start), "get_cblip_correction", <<>>, FALSE)

DoGetFieldmapCorrection ==
  \E m1 \in TransMats, m2 \in EstMats, ok \in BOOLEAN, me \in EstMats \cup {NoEst} :
    Finish(GetFieldmapCorrection(Start, m1, m2, ok, me), "get_fieldmap_correction",
           <<>>, FALSE)

DoGetMotionCorrection ==
  \E est \in [1..Get(wsp, "asldata").nvols -> EstMats] :
    Finish(GetMotionCorrection(Start, est), "get_motion_correction", <<>>, FALSE)

\* get_motion_correction(wsp) when MCFLIRT, if run, exits with an error
DoGetMotionCorrectionFails ==
  Finish(GetMotionCorrection(Start, NoEst), "get_motion_correction", <<>>, FALSE)

\* the caller of a stage function handles the exception that reached it and
\* carries on with the same workspace
DoCallerCatches ==
  /\ err # "none"
  /\ err' = "none"
  /\ last' = [op |-> "except", args |-> <<>>]
  /\ UNCHANGED <<wsp, done, trace, ret, pc>>

(***************************************************************************)
(* get_motion_correction as a worker runs it beside another.  The function *)
(* takes no lock and a worker's exception ends that worker's call only, so *)
(* the other worker may run between any two accesses of the workspace: a   *)
(* step is one read or one write of a workspace attribute, or the blocking *)
(* MCFLIRT call.  The calls of both workers are kept in the trace.  Of a    *)
(* worker pc keeps the position and the local variables: mats, the list of *)
(* matrices, and inv, the value computed and not yet assigned.             *)
(***************************************************************************)
\* the worker moves to position at, its local variables set as in loc
Goto(w, at, loc) ==
  /\ pc' = [pc EXCEPT ![w] = [loc EXCEPT !.at = at]]
  /\ last' = [op |-> "get_motion_correction", args |-> <<w>>]

\* if wsp.isdone("get_motion_correction"): return
WorkerCheck(w) ==
  /\ pc[w].at = "idle"
  /\ Goto(w, IF "get_motion_correction" \in done THEN "returned" ELSE "mcflirt", pc[w])
  /\ UNCHANGED <<wsp, done, trace, err, ret>>

\* the MCFLIRT call of either branch; its matrices become the local mats,
\* and its failure ends the call of this worker
WorkerMcflirt(w) ==
  /\ pc[w].at = "mcflirt"
  /\ \E est \in [1..Get(wsp, "asldata").nvols -> EstMats] \cup {NoEst} :
       LET W0 == [Start EXCEPT !.trace = trace]
           W == IF Truthy(Top(W0, "calib"))
                THEN Mcflirt(W0, Top(W0, "asldata"), Top(W0, "calib"), est)
                ELSE MotionNoCalib(W0, est)
       IN  /\ trace' = W.trace
           /\ IF Ok(W)
              THEN /\ err' = err
                   /\ Goto(w, IF Truthy(Top(W0, "calib")) THEN "set_asl2calib"
                                                          ELSE "store",
                           [pc[w] EXCEPT !.mats = W.ret.mats])
              ELSE /\ err' = W.err
                   /\ Goto(w, "raised", pc[w])
  /\ UNCHANGED <<wsp, done, ret>>

\* wsp.asl2calib = mats[int(float(len(mats))/2)]
WorkerSetAsl2Calib(w) ==
  /\ pc[w].at = "set_asl2calib"
  /\ wsp' = Put(wsp, "asl2calib", Mat(pc[w].mats[MiddleVol(Len(pc[w].mats)) + 1]))
  /\ Goto(w, "invert", pc[w])
  /\ UNCHANGED <<done, trace, err, ret>>

\* np.linalg.inv(wsp.asl2calib): the stored matrix is read and inverted
WorkerInvert(w) ==
  /\ pc[w].at = "invert"
  /\ Goto(w, "set_calib2asl", [pc[w] EXCEPT !.inv = Inv(Get(wsp, "asl2calib"))])
  /\ UNCHANGED <<wsp, done, trace, err, ret>>

\* wsp.calib2asl = the inverse computed
WorkerSetCalib2Asl(w) ==
  /\ pc[w].at = "set_calib2asl"
  /\ wsp' = Put(wsp, "calib2asl", pc[w].inv)
  /\ Goto(w, "recentre", [pc[w] EXCEPT !.inv = <<>>])
  /\ UNCHANGED <<done, trace, err, ret>>

\* mats = [np.dot(mat, wsp.calib2asl) for mat in mats]: one element of the
\* list, for which wsp.calib2asl is read; inv holds the elements computed
\* so far, and the list is assigned to mats after the last
WorkerRecentre(w) ==
  /\ pc[w].at = "recentre"
  /\ LET out == Append(pc[w].inv,
                       Dot(pc[w].mats[Len(pc[w].inv) + 1], Get(wsp, "calib2asl").m))
     IN  IF Len(out) = Len(pc[w].mats)
         THEN Goto(w, "store", [pc[w] EXCEPT !.mats = out, !.inv = None])
         ELSE Goto(w, "recentre", [pc[w] EXCEPT !.inv = out])
  /\ UNCHANGED <<wsp, done, trace, err, ret>>

\* wsp.asldata_mc_mats = np.concatenate(mats, axis=0)
WorkerStore(w) ==
  /\ pc[w].at = "store"
  /\ wsp' = Put(wsp, "asldata_mc_mats", Mat(Concatenate(pc[w].mats)))
  /\ Goto(w, "mark", pc[w])
  /\ UNCHANGED <<done, trace, err, ret>>

\* wsp.done("get_motion_correction"), and the return
WorkerMark(w) ==
  /\ pc[w].at = "mark"
  /\ done' = done \cup {"get_motion_correction"}
  /\ Goto(w, "returned", [pc[w] EXCEPT !.mats = <<>>])
  /\ UNCHANGED <<wsp, trace, err, ret>>

\* the caller adds the fieldmap images, the phase-encode direction and the
\* echo spacing to a workspace that lacks some of them
DoSetFieldmapInputs ==
  /\ err = "none"
  /\ \E n \in FmapInputs \cup {"pedir", "echospacing"} : IsNone(Get(wsp, n))
  /\ wsp' = [k \in DOMAIN wsp \cup FmapInputs \cup {"pedir", "echospacing"} |->
               IF k \in FmapInputs THEN Image(k, 1)
               ELSE IF k = "pedir" THEN Str("y")
               ELSE IF k = "echospacing" THEN Num(50000)
               ELSE wsp[k]]
  /\ trace' = <<>>
  /\ ret' = None
  /\ last' = [op |-> "set_inputs", args |-> <<>>]
  /\ UNCHANGED <<done, err, pc>>

DoGetSensitivityCorrection ==
  \E m1 \in TransMats, m2 \in EstMats, ok \in BOOLEAN, d \in ResampledData :
    Finish(GetSensitivityCorrection(Start, m1, m2, ok, d), "get_sensitivity_correction",
           <<>>, FALSE)

DoApplyCorrections ==
  \E j \in JacData, da, dc \in ResampledData :
    Finish(ApplyCorrections(Start, j, da, <<dc, dc, dc>>), "apply_corrections",
           <<>>, FALSE)

DoGetRegfrom ==
  Finish(GetRegfrom(Start), "get_regfrom", <<>>, FALSE)

\* the image tuples passed to apply_sensitivity_correction: plain images and
\* an ASL series
ImgArgs ==
  {<<>>, <<Image("perfusion", 6)>>, <<Image("perfusion", 6), Image("m0", 4)>>,
   <<Image("m0", 4), Image("perfusion", 6)>>,
   <<Img("asldata", 2, "diff", Rat(5, 1), <<>>)>>}

DoApplySensitivityCorrection ==
  \E imgs \in ImgArgs :
    Finish(ApplySensitivityCorrection(Start, imgs), "apply_sensitivity_correction",
           imgs, TRUE)

DoRegAsl2Calib ==
  \E m1 \in TransMats, m2 \in EstMats :
    Finish(RegAsl2Calib(Start, m1, m2), "reg_asl2calib", <<>>, FALSE)

DoRegAsl2Struc ==
  \E flirt, bbr, ok \in BOOLEAN, m1 \in TransMats, m2 \in EstMats,
     mb \in EstMats \cup {NoEst} :
    Finish(RegAsl2Struc(Start, flirt, bbr, m1, m2, ok, mb), "reg_asl2struc",
           <<flirt, bbr>>, FALSE)

DoRegStruc2Std ==
  \E fnirt \in BOOLEAN, m \in EstMats :
    Finish(RegStruc2Std(Start, fnirt, m), "reg_struc2std", <<fnirt>>, FALSE)

DoStruc2Asl ==
  \E use_applywarp \in BOOLEAN, d \in ResampledData :
    Finish(Struc2Asl(Start, Image("struc_space", 7), use_applywarp, d),
           "struc2asl", <<use_applywarp>>, TRUE)

DoAsl2Struc ==
  \E use_applywarp \in BOOLEAN, d \in ResampledData :
    Finish(Asl2Struc(Start, Image("asl_space", 5), use_applywarp, d),
           "asl2struc", <<use_applywarp>>, TRUE)

(***************************************************************************)
(* Specifications                                                          *)
(***************************************************************************)
\* the correction pipeline: the three memoized stages and the compositor
CorrCfgs ==
  {[BaseCfg EXCEPT !.nvols = n, !.calib = cal, !.cref = cal /\ aux,
                   !.cblip = cal /\ aux, !.struc = fm, !.fmap = IF fm THEN FmapInputs ELSE {},
                   !.pedir = pe, !.echospacing = IF pe = None THEN None ELSE Num(50000),
                   !.gdc_warp = g] :
     n \in 1..MaxVols, cal \in BOOLEAN, aux \in BOOLEAN, fm \in BOOLEAN,
     pe \in {None, Str("-y")}, g \in BOOLEAN}

Init == InitFrom(CorrCfgs)

Next ==
  \/ DoGetMotionCorrection
  \/ DoGetFieldmapCorrection
  \/ DoGetCblipCorrection
  \/ DoApplyCorrections

Spec == Init /\ [][Next]_vars

\* registration: the transform-producing functions, the stages that trigger
\* them, and the transform-chain functions
AnatFiles == {"T1_to_MNI_nonlin_coeff", "T1_to_MNI_lin.mat"}

RegCfgs ==
  {[BaseCfg EXCEPT !.struc = st, !.calib = cal,
                   !.fmap = IF fm THEN FmapInputs ELSE {},
                   !.pedir = IF fm THEN Str("y") ELSE None,
                   !.echospacing = IF fm THEN Num(50000) ELSE None,
                   !.senscorr_auto = sa, !.bias = sa] :
     st \in BOOLEAN, cal \in BOOLEAN, fm \in BOOLEAN, sa \in BOOLEAN}

InitReg == InitFrom(RegCfgs)

NextReg ==
  \/ DoRegAsl2Struc
  \/ DoRegAsl2Calib
  \/ DoGetMotionCorrection
  \/ DoGetFieldmapCorrection
  \/ DoGetSensitivityCorrection

SpecReg == InitReg /\ [][NextReg]_vars

\* the structural -> standard registration and the transform-chain functions
StdCfgs ==
  {[BaseCfg EXCEPT !.struc = st, !.fslanat = fa] :
     st \in BOOLEAN,
     fa \in {None} \cup {[kind |-> "dir", files |-> fs] : fs \in SUBSET AnatFiles}}

InitStd == InitFrom(StdCfgs)

NextStd ==
  \/ DoRegAsl2Struc
  \/ DoRegStruc2Std
  \/ DoStruc2Asl
  \/ DoAsl2Struc

SpecStd == InitStd /\ [][NextStd]_vars

\* the choice of the registration target: get_regfrom and the two
\* registrations that call it
RegfromCfgs ==
  {[BaseCfg EXCEPT !.regfrom = rf, !.iaf = iaf, !.calib = cal, !.struc = st] :
     rf \in BOOLEAN, iaf \in {"tc", "ct", "diff"}, cal \in BOOLEAN, st \in BOOLEAN}

InitRegfrom == InitFrom(RegfromCfgs)

NextRegfrom ==
  \/ DoGetRegfrom
  \/ DoRegAsl2Calib
  \/ DoRegAsl2Struc

SpecRegfrom == InitRegfrom /\ [][NextRegfrom]_vars

\* sensitivity correction: the choice of the field and its application
SensCfgs ==
  {[BaseCfg EXCEPT !.senscorr_off = off, !.isen = is, !.calib = cal, !.cref = cr,
                   !.senscorr_auto = sa, !.bias = sa, !.struc = st] :
     off \in BOOLEAN, is \in BOOLEAN, cal \in BOOLEAN, cr \in BOOLEAN,
     sa \in BOOLEAN, st \in BOOLEAN}

InitSens == InitFrom(SensCfgs)

NextSens ==
  \/ DoGetSensitivityCorrection
  \/ DoApplySensitivityCorrection

SpecSens == InitSens /\ [][NextSens]_vars

\* fieldmap correction with every combination of its five inputs, with and
\* without the option --gdcwarp
FmapCfgs ==
  {[BaseCfg EXCEPT !.fmap = fs, !.pedir = pe, !.echospacing = es, !.struc = st,
                   !.gdcwarp = gw] :
     fs \in SUBSET FmapInputs, pe \in {None, Str("y")}, es \in {None, Num(50000)},
     st \in BOOLEAN, gw \in BOOLEAN}

InitFmap == InitFrom(FmapCfgs)

NextFmap ==
  \/ DoGetFieldmapCorrection
  \/ DoApplyCorrections

SpecFmap == InitFmap /\ [][NextFmap]_vars

\* the phase-reversed calibration correction with every phase-encode
\* direction, and echo spacings of 0.005 s, 0.00058 s, 0.0002653 s and
\* three whose seventh decimal is 5: 0.0012345 s (printed 0.001234),
\* 0.0010015 s (printed 0.001002) and 0.0078125 s (printed 0.007812)
CblipCfgs ==
  {[BaseCfg EXCEPT !.calib = TRUE, !.cblip = cb, !.cref = cr, !.gdc_warp = g,
                   !.pedir = Str(pe), !.echospacing = Num(es)] :
     cb \in BOOLEAN, cr \in BOOLEAN, g \in BOOLEAN, pe \in Pedirs,
     es \in {50000, 5800, 2653, 12345, 10015, 78125}}

InitCblip == InitFrom(CblipCfgs)

NextCblip ==
  \/ DoGetCblipCorrection
  \/ DoApplyCorrections

SpecCblip == InitCblip /\ [][NextCblip]_vars

\* motion correction with an estimator that may fail, called by a caller
\* that handles the exception and calls again or applies what there is
MotionFailCfgs ==
  {[BaseCfg EXCEPT !.nvols = n, !.calib = cal, !.gdc_warp = g] :
     n \in 1..MaxVols, cal \in BOOLEAN, g \in BOOLEAN}

InitMotionFail == InitFrom(MotionFailCfgs)

NextMotionFail ==
  \/ DoGetMotionCorrection
  \/ DoGetMotionCorrectionFails
  \/ DoCallerCatches
  \/ DoApplyCorrections

SpecMotionFail == InitMotionFail /\ [][NextMotionFail]_vars

\* the same calls on series of up to twice as many volumes, six among them
SpecMiddle ==
  /\ InitFrom({[BaseCfg EXCEPT !.nvols = n, !.calib = cal] :
                 n \in 1..(2 * MaxVols), cal \in BOOLEAN})
  /\ [][NextMotionFail]_vars

\* get_motion_correction called by two workers on one workspace, each call
\* at its own position in the function
NextWorkers ==
  \E w \in Workers :
    \/ WorkerCheck(w)
    \/ WorkerMcflirt(w)
    \/ WorkerSetAsl2Calib(w)
    \/ WorkerInvert(w)
    \/ WorkerSetCalib2Asl(w)
    \/ WorkerRecentre(w)
    \/ WorkerStore(w)
    \/ WorkerMark(w)

SpecWorkers == InitMotionFail /\ [][NextWorkers]_vars

\* every function that stores a transform or marks a stage, on one workspace
MonoCfgs ==
  {[BaseCfg EXCEPT !.struc = st, !.calib = cal,
                   !.fmap = IF fm THEN FmapInputs ELSE {},
                   !.pedir = IF fm THEN Str("y") ELSE None,
                   !.echospacing = IF fm THEN Num(50000) ELSE None,
                   !.fslanat = fa] :
     st \in BOOLEAN, cal \in BOOLEAN, fm \in BOOLEAN,
     fa \in {None, [kind |-> "dir", files |-> {"T1_to_MNI_lin.mat"}]}}

InitMono == InitFrom(MonoCfgs)

NextMono ==
  \/ DoRegAsl2Calib
  \/ DoRegAsl2Struc
  \/ DoRegStruc2Std
  \/ DoGetMotionCorrection
  \/ DoGetFieldmapCorrection

SpecMono == InitMono /\ [][NextMono]_vars

\* the rigid registrations, with and without a structural image, a
\* calibration image and requested degrees of freedom
FlirtCfgs ==
  {[BaseCfg EXCEPT !.struc = st, !.calib = cal, !.dof = dof] :
     st \in BOOLEAN, cal \in BOOLEAN, dof \in {None, Num(12)}}

InitFlirt == InitFrom(FlirtCfgs)

NextFlirt ==
  \/ DoRegAsl2Calib
  \/ DoRegAsl2Struc

SpecFlirt == InitFlirt /\ [][NextFlirt]_vars

\* the fieldmap correction when its inputs may be added after a call
NextLateFmap ==
  \/ DoGetFieldmapCorrection
  \/ DoSetFieldmapInputs

SpecLateFmap == InitFmap /\ [][NextLateFmap]_vars

(***************************************************************************)
(* Properties                                                              *)
(***************************************************************************)
Node(name) == Get(wsp, name)

RegNodeOf(w, name) ==
  IF Get(w, "reg").kind = "wsp" THEN Get(Get(w, "reg").nodes, name) ELSE None

RegNode(name) == RegNodeOf(wsp, name)

StrucNode(name) ==
  IF Node("structural").kind = "wsp" THEN Get(Node("structural").nodes, name) ELSE None

\* the invocations of a tool made by the last call
Calls(tool) == {i \in 1..Len(trace) : trace[i].tool = tool}

\* C1: a call of a memoized stage that returns marks the stage done, and a
\* call of a stage that is done invokes no external tool and writes nothing
C1_StageRunsOnce ==
  [][\A s \in {"get_motion_correction", "get_fieldmap_correction",
              "get_cblip_correction"} :
       /\ (last'.op = s /\ err' = "none") => s \in done'
       /\ (last'.op = s /\ s \in done) =>
            (trace' = <<>> /\ wsp' = wsp /\ done' = done /\ err' = "none")]_vars

\* a second call of get_motion_correction has been made after the matrices
\* were stored
C1_Witness ==
  /\ last.op = "get_motion_correction"
  /\ "get_motion_correction" \in done
  /\ trace = <<>>
  /\ ~IsNone(Node("asldata_mc_mats"))

\* C3: apply_corrections without motion matrices, fieldmap warp and gradient
\* distortion warp invokes no tool and changes no node
C3_NoCorrectionNoOp ==
  [][(/\ last'.op = "apply_corrections"
      /\ IsNone(Node("asldata_mc_mats"))
      /\ IsNone(Node("fmap_warp"))
      /\ IsNone(Node("gdc_warp")))
     => (trace' = <<>> /\ wsp' = wsp /\ err' = "none")]_vars

C3_Witness ==
  /\ last.op = "apply_corrections"
  /\ IsNone(Node("asldata_mc_mats")) /\ IsNone(Node("fmap_warp")) /\ IsNone(Node("gdc_warp"))
  /\ trace = <<>>
  /\ Node("asldata") = Node("asldata_orig")
  /\ ~IsNone(Node("calib_orig"))

WarpActive == Truthy(Node("fmap_warp")) \/ Truthy(Node("gdc_warp"))

\* C4: with a warp active, apply_corrections composes the active warps into
\* one field and every resampling is handed that field as its warp
C4_CombinedWarpResampled ==
  (last.op = "apply_corrections" /\ WarpActive) =>
    /\ Calls("applywarp") # {}
    /\ \E c \in Calls("convertwarp") :
         \A a \in Calls("applywarp") : trace[a].warp = trace[c].out

\* C5: with a warp active, every image corrected in the run is its
\* resampled data times the Jacobian of the composition
C5_JacobianScaled ==
  (last.op = "apply_corrections" /\ WarpActive /\ err = "none") =>
    \E c \in Calls("convertwarp") :
      /\ Calls("applywarp") # {}
      /\ \A a \in Calls("applywarp") :
           Node(trace[a].img.name).data
             = RMul(trace[a].out.data, trace[c].jacobian.data)

\* C6: with a calibration reference, the stored matrix of the middle volume
\* floor(n/2) is the identity, every stored matrix is the estimated one times
\* the inverse of the middle volume's, and asl2calib is the middle volume's
\* matrix as estimated
C6_MiddleVolumeIdentity ==
  /\ (~IsNone(Node("asldata_mc_mats")) /\ ~IsNone(Node("asl2calib"))) =>
       LET rows == Node("asldata_mc_mats").m
       IN  VolMat(rows, (Len(rows) \div Dim) \div 2) = Identity
  /\ (last.op = "get_motion_correction" /\ trace # <<>> /\ err = "none"
      /\ ~IsNone(trace[1].reffile)) =>
       LET est == trace[1].mats
           n == Node("asldata").nvols
           mid == est[(n \div 2) + 1]
       IN  /\ Node("asl2calib") = Mat(mid)
           /\ Dot(Node("asl2calib").m, Node("calib2asl").m) = Identity
           /\ \A v \in 1..n :
                Dot(VolMat(Node("asldata_mc_mats").m, v - 1), mid) = est[v]

\* a series of three volumes was corrected against the calibration image
\* and a volume other than the middle one moved
C6_Witness ==
  /\ last.op = "get_motion_correction"
  /\ ~IsNone(Node("asl2calib"))
  /\ Node("asldata").nvols = 3
  /\ Len(Node("asldata_mc_mats").m) = 3 * Dim
  /\ VolMat(Node("asldata_mc_mats").m, 0) # Identity
  /\ Node("asl2calib") # Mat(Identity)

Asl2StrucEstimations(tr) ==
  {i \in 1..Len(tr) :
     \/ tr[i].tool = "flirt" /\ ~IsNone(tr[i].ref) /\ tr[i].ref.name = "struc"
     \/ tr[i].tool = "epi_reg" /\ IsNone(tr[i].fmap)}

\* C2: once asl2struc is stored, no later call runs an ASL -> structural
\* estimation, and asl2struc and struc2asl stay as they are
C2_Asl2StrucEstimatedOnce ==
  [][~IsNone(RegNode("asl2struc")) =>
       /\ Asl2StrucEstimations(trace') = {}
       /\ RegNodeOf(wsp', "asl2struc") = RegNode("asl2struc")
       /\ RegNodeOf(wsp', "struc2asl") = RegNode("struc2asl")]_vars

\* forward and backward are both absent, or both matrices and inverse to
\* each other
InversePair(f, b) ==
  IF IsNone(f) THEN IsNone(b)
  ELSE /\ f.kind = "mat" /\ b.kind = "mat"
       /\ Dot(f.m, b.m) = Identity
       /\ Dot(b.m, f.m) = Identity

C9_ChainNeedsRegistration ==
  /\ (last.op = "struc2asl" /\ IsNone(RegNode("struc2asl"))) =>
       (err = "ValueError" /\ trace = <<>>)
  /\ (last.op = "asl2struc" /\ IsNone(RegNode("asl2struc"))) =>
       (err = "ValueError" /\ trace = <<>>)

\* the transform of reg_struc2std has one of the four sources: a file of
\* the fslanat directory, or a structural image to register
Struc2StdHasSource ==
  \/ ~IsNone(Node("struc"))
  \/ ~IsNone(Node("fslanat")) /\ Node("fslanat").files # {}

\* C10: after reg_struc2std both directions are stored and std2struc is the
\* inverse of struc2std: the matrix inverse of a matrix, the INVWARP of that
\* field for a field
C10_BothDirectionsStored ==
  (last.op = "reg_struc2std" /\ Struc2StdHasSource) =>
    /\ err = "none"
    /\ ~IsNone(RegNode("struc2std")) /\ ~IsNone(RegNode("std2struc"))
    /\ RegNode("struc2std").kind = "mat" =>
         InversePair(RegNode("struc2std"), RegNode("std2struc"))
    /\ RegNode("struc2std").kind # "mat" =>
         RegNode("std2struc") = [kind |-> "warp", inverseof |-> RegNode("struc2std")]

\* the image brain extraction gives for img
Extracted(img) ==
  [kind |-> "image", name |-> img.name, nvols |-> img.nvols, iaf |-> img.iaf,
   data |-> img.data, proc |-> Append(img.proc, "brain")]

\* the mean over volumes of the ASL series
MeanAsl == Mean(Node("asldata"))

\* C11: a call of get_regfrom with no target stored stores the user's
\* regfrom if there is one, else the brain-extracted mean ASL image of a
\* tag/control interleaved series, else the brain-extracted calibration
\* image if there is one, else the brain-extracted mean ASL image; and no
\* step changes a stored target or runs the brain extractor again
C11_RegfromPrecedence ==
  [][/\ (last'.op = "get_regfrom" /\ IsNone(RegNode("regfrom"))) =>
          /\ err' = "none"
          /\ RegNodeOf(wsp', "regfrom") =
               (IF ~IsNone(Node("regfrom")) THEN Node("regfrom")
                ELSE IF Node("asldata").iaf \in {"tc", "ct"} THEN Extracted(MeanAsl)
                ELSE IF ~IsNone(Node("calib")) THEN Extracted(Node("calib"))
                ELSE Extracted(MeanAsl))
          /\ (~IsNone(Node("regfrom"))) => trace' = <<>>
          /\ IsNone(Node("regfrom")) =>
               (Len(trace') = 1 /\ trace'[1].tool = "bet")
     /\ ~IsNone(RegNode("regfrom")) =>
          /\ RegNodeOf(wsp', "regfrom") = RegNode("regfrom")
          /\ \A i \in 1..Len(trace') : trace'[i].tool # "bet"]_vars

\* get_regfrom has been called a second time on a tag/control interleaved
\* series that has a calibration image and no user-supplied target
C11_Witness ==
  /\ last.op = "get_regfrom"
  /\ trace = <<>>
  /\ Node("asldata").iaf = "tc"
  /\ ~IsNone(Node("calib"))
  /\ IsNone(Node("regfrom"))
  /\ RegNode("regfrom") = Extracted(MeanAsl)

\* C12: after get_sensitivity_correction the sensitivity field is absent if
\* correction is disabled, else the user-supplied field if there is one,
\* else the calibration image divided by the calibration reference if both
\* exist
C12_SensitivityPrecedence ==
  (last.op = "get_sensitivity_correction" /\ err = "none") =>
    IF IsTrue(Node("senscorr_off")) THEN IsNone(Node("sensitivity"))
    ELSE IF ~IsNone(Node("isen")) THEN Node("sensitivity") = Node("isen")
    ELSE (~IsNone(Node("calib")) /\ ~IsNone(Node("cref"))) =>
           /\ ~IsNone(Node("sensitivity"))
           /\ Node("sensitivity").data = RDiv(Node("calib").data, Node("cref").data)

\* C13: apply_sensitivity_correction returns one image per image passed, in
\* order: the image divided by the sensitivity field if a field is stored
\* and correction is not disabled, the image itself otherwise; it invokes
\* no tool and writes no node
C13_SensitivityApplied ==
  [][last'.op = "apply_sensitivity_correction" =>
       /\ wsp' = wsp /\ done' = done /\ trace' = <<>> /\ err' = "none"
       /\ ret'.kind = "tuple"
       /\ Len(ret'.imgs) = Len(last'.args)
       /\ IF ~IsNone(Node("sensitivity")) /\ ~IsTrue(Node("senscorr_off"))
          THEN \A i \in 1..Len(last'.args) :
                 ret'.imgs[i].data
                   = RDiv(last'.args[i].data, Node("sensitivity").data)
          ELSE ret'.imgs = last'.args]_vars

FmapRequired == {"fmap", "fmapmag", "fmapmagbrain", "pedir", "echospacing"}

\* C14: get_fieldmap_correction with one of its five inputs missing raises
\* nothing, invokes no tool, creates no registration or structural scope
\* and writes no node, and the four fieldmap outputs are absent after it
C14_FieldmapSkipped ==
  [][(/\ last'.op = "get_fieldmap_correction"
      /\ \E n \in FmapRequired : IsNone(Node(n)))
     => /\ err' = "none"
        /\ trace' = <<>>
        /\ wsp' = wsp
        /\ \A n \in {"fmap_warp", "fmap_warp_struc", "fmap_asl2struc",
                    "fmap_struc2asl"} : IsNone(Get(wsp', n))]_vars

\* the stage was skipped with a structural image and all inputs but the
\* echo spacing
C14_Witness ==
  /\ last.op = "get_fieldmap_correction"
  /\ "get_fieldmap_correction" \in done
  /\ \A n \in FmapRequired \ {"echospacing"} : ~IsNone(Node(n))
  /\ IsNone(Node("echospacing"))
  /\ ~IsNone(Node("struc"))
  /\ trace = <<>>
  /\ IsNone(Node("fmap_warp"))

\* C15 as stated: the parameter table handed to TOPUP has two rows, the
\* signed unit vector of the phase-encode direction and its negation, each
\* followed by the echo spacing as fourth column
C15_EchoSpacingColumn ==
  (last.op = "get_cblip_correction" /\ trace # <<>>) =>
    LET rows == trace[1].datain
        p == Node("pedir").v
        es == Node("echospacing").v
        axis == IF p \in {"x", "-x"} THEN 1 ELSE IF p \in {"y", "-y"} THEN 2 ELSE 3
        sign == IF p \in {"x", "y", "z"} THEN 1 ELSE -1
    IN  /\ Len(rows) = 2
        /\ \A k \in 1..3 :
             /\ rows[1][k] = (IF k = axis THEN sign ELSE 0)
             /\ rows[2][k] = -rows[1][k]
        /\ \A r \in 1..2 : Len(rows[r]) = 4 /\ rows[r][4] = es

\* C15, amended: the parameter table handed to TOPUP has two rows; the first
\* three columns of the first row are the signed unit vector of the
\* phase-encode direction and those of the second row its negation; the
\* fourth column of both is the echo spacing as printed with six decimals:
\* a whole number of microseconds at most half a microsecond from the echo
\* spacing, and the echo spacing itself when that is a whole number of
\* microseconds
C15_TopupParameterTable ==
  (last.op = "get_cblip_correction" /\ trace # <<>>) =>
    LET rows == trace[1].datain
        p == Node("pedir").v
        es == Node("echospacing").v
        axis == IF p \in {"x", "-x"} THEN 1 ELSE IF p \in {"y", "-y"} THEN 2 ELSE 3
        sign == IF p \in {"x", "y", "z"} THEN 1 ELSE -1
    IN  /\ Len(rows) = 2
        /\ \A k \in 1..3 :
             /\ rows[1][k] = (IF k = axis THEN sign ELSE 0)
             /\ rows[2][k] = -rows[1][k]
        /\ \A r \in 1..2 :
             /\ Len(rows[r]) = 4
             /\ rows[r][4] % 10 = 0
             /\ rows[r][4] - es \in -5..5
             /\ es % 10 = 0 => rows[r][4] = es

\* the table was built for direction -y and an echo spacing of 0.005 s, and
\* the stage ran TOPUP with it
C15_Witness ==
  /\ last.op = "get_cblip_correction"
  /\ err = "none"
  /\ Node("pedir") = Str("-y")
  /\ Node("echospacing") = Num(50000)
  /\ trace[1].datain = << <<0, -1, 0, 50000>>, <<0, 1, 0, 50000>> >>

\* the original node of each corrected node
OrigOf ==
  [asldata |-> "asldata_orig", calib |-> "calib_orig", cref |-> "cref_orig",
   cblip |-> "cblip_orig"]

\* C16: no step changes an original node, and a corrected node written by
\* apply_corrections holds the output of a resampling whose input is the
\* value of its original node
C16_OriginalsKept ==
  [][/\ \A n \in DOMAIN OrigOf : Get(wsp', OrigOf[n]) = Node(OrigOf[n])
     /\ last'.op = "apply_corrections" =>
          \A n \in DOMAIN OrigOf :
            Get(wsp', n) # Node(n) =>
              \E a \in 1..Len(trace') :
                /\ trace'[a].tool = "applywarp"
                /\ trace'[a].img = Node(OrigOf[n])
                /\ trace'[a].out.data = Get(wsp', n).data
                /\ Get(wsp', n).proc = <<"applywarp">>]_vars

\* apply_corrections has corrected the ASL data, the calibration image and
\* the calibration reference, and the originals are as supplied
C16_Witness ==
  /\ last.op = "apply_corrections"
  /\ Len(trace) >= 3
  /\ ~IsNone(Node("calib")) /\ ~IsNone(Node("cref"))
  /\ Node("asldata").proc = <<"applywarp">> /\ Node("asldata_orig").proc = <<>>
  /\ Node("calib").proc = <<"applywarp">> /\ Node("calib_orig").proc = <<>>
  /\ Node("cref").proc = <<"applywarp">> /\ Node("cref_orig").proc = <<>>
  /\ Node("asldata").data # Node("asldata_orig").data

\* C17: after apply_corrections with an active correction and a
\* phase-reversed calibration original, the corrected cblip node is the
\* resampling of cblip_orig with the calibration->ASL matrix as pre-transform
\* and the warp and reference grid of the calibration image's resampling
C17_CblipFromOwnOriginal ==
  (/\ last.op = "apply_corrections"
   /\ (WarpActive \/ ~IsNone(Node("asldata_mc_mats")))
   /\ ~IsNone(Node("calib_orig"))
   /\ ~IsNone(Node("cblip_orig")))
  => /\ err = "none"
     /\ \E a, b \in Calls("applywarp") :
          /\ trace[a].img = Node("cblip_orig")
          /\ trace[a].premat = Node("calib2asl")
          /\ trace[b].img = Node("calib_orig")
          /\ trace[a].warp = trace[b].warp
          /\ trace[a].ref = trace[b].ref
          /\ ~IsNone(Node("cblip"))
          /\ Node("cblip").data = trace[a].out.data

\* the last call ran MCFLIRT and MCFLIRT failed
McflirtFailed == \E i \in Calls("mcflirt") : trace[i].mats = NoEst

\* C18: a call of get_motion_correction in which MCFLIRT fails raises, writes
\* none of asldata_mc_mats, asl2calib, calib2asl and does not mark the stage
\* done; the next call after the caller handled the error runs MCFLIRT again
C18_MotionFailsFast ==
  [][/\ (last'.op = "get_motion_correction" /\ McflirtFailed') =>
          /\ err' # "none"
          /\ \A n \in {"asldata_mc_mats", "asl2calib", "calib2asl"} :
               IsNone(Get(wsp', n))
          /\ wsp' = wsp
          /\ "get_motion_correction" \notin done'
     /\ (last.op = "except" /\ last'.op = "get_motion_correction") =>
          Len(trace') = 1 /\ trace'[1].tool = "mcflirt"]_vars

\* MCFLIRT failed in a call of get_motion_correction on a workspace with a
\* calibration image and the error reached the caller
C18_Witness ==
  /\ last.op = "get_motion_correction"
  /\ McflirtFailed
  /\ err = "ToolError"
  /\ ~IsNone(Node("calib"))
  /\ IsNone(Node("asl2calib"))

\* C19: whatever the interleaving of two workers calling
\* get_motion_correction on one workspace, at most one MCFLIRT run completes:
\* the two workers never both pass the isdone check and run the estimator
C19_StageRunsOnceConcurrently ==
  Cardinality({i \in Calls("mcflirt") : trace[i].mats # NoEst}) <= 1

\* C20: a call of reg_asl2calib runs FLIRT only if a calibration image exists
\* and no ASL->calibration transform has been stored, by motion correction
\* or by an earlier call; after motion correction stored asl2calib and
\* calib2asl the call runs no FLIRT and leaves that pair as it is
C20_Asl2CalibEstimatedOnce ==
  [][last'.op = "reg_asl2calib" =>
       /\ (\E i \in 1..Len(trace') : trace'[i].tool = "flirt") =>
            /\ ~IsNone(Get(wsp, "calib"))
            /\ IsNone(Get(wsp, "asl2calib"))
            /\ IsNone(RegNodeOf(wsp, "asl2calib"))
       /\ ~IsNone(Get(wsp, "asl2calib")) =>
            /\ Get(wsp', "asl2calib") = Get(wsp, "asl2calib")
            /\ Get(wsp', "calib2asl") = Get(wsp, "calib2asl")]_vars

\* C21: a transform stored in the reg scope, or at the top level by
\* get_motion_correction, is never made absent by a later call, and a stage
\* marked done stays done
C21_RegistrationMonotonic ==
  [][/\ \A t \in {"asl2calib", "calib2asl", "asl2struc", "struc2asl",
                  "struc2std", "std2struc"} :
          ~IsNone(RegNodeOf(wsp, t)) => ~IsNone(RegNodeOf(wsp', t))
     /\ \A t \in {"asl2calib", "calib2asl"} :
          ~IsNone(Get(wsp, t)) => ~IsNone(Get(wsp', t))
     /\ done \subseteq done']_vars

\* every transform pair is stored and two stages are done, and a further
\* registration call has been made on that state
C21_Witness ==
  /\ \A t \in {"asl2calib", "calib2asl", "asl2struc", "struc2asl",
              "struc2std", "std2struc"} : ~IsNone(RegNode(t))
  /\ \A t \in {"asl2calib", "calib2asl"} : ~IsNone(Node(t))
  /\ {"get_motion_correction", "get_fieldmap_correction"} \subseteq done
  /\ last.op = "reg_asl2struc"
  /\ Len(trace) > 0

\* C22: once get_cblip_correction is marked done the workspace holds a
\* cblip_warp node, and after the call that ran TOPUP that node is the field
\* TOPUP estimated from the stacked pair
C22_CblipWarpStored ==
  /\ "get_cblip_correction" \in done => Node("cblip_warp").kind = "warp"
  /\ (last.op = "get_cblip_correction" /\ err = "none" /\ Calls("topup") # {}) =>
       \E i \in Calls("topup") :
         Node("cblip_warp") = Warp(<<"topup">>, None, trace[i].imain.name)

\* C23: in a call of get_fieldmap_correction that runs EPI_REG, the
\* ASL->structural matrix and the segmentation are stored and every FLIRT
\* and segmentation call comes before EPI_REG; EPI_REG is given the stored
\* ASL->structural matrix as initial transform; fmap_struc2asl is the inverse
\* of fmap_asl2struc and fmap_warp is the structural-space warp composed
\* with fmap_struc2asl on the grid of the mean ASL image
C23_FieldmapRegistrationOrder ==
  (last.op = "get_fieldmap_correction" /\ err = "none") =>
    \A e \in Calls("epi_reg") :
      /\ ~IsNone(RegNode("asl2struc"))
      /\ ~IsNone(StrucNode("wm_seg"))
      /\ \A i \in Calls("flirt") \cup Calls("fast") : i < e
      /\ ~IsNone(trace[e].init)
      /\ trace[e].init = RegNode("asl2struc")
      /\ Node("fmap_asl2struc") = trace[e].out
      /\ Node("fmap_struc2asl") = Inv(Node("fmap_asl2struc"))
      /\ Node("fmap_warp") =
           Warp(<<"fmap">>, Node("fmap_struc2asl"), Node("asldata_mean").name)

\* the resampler calls of the last call whose input is the original of n
ResamplingsOf(n) == {a \in Calls("applywarp") : trace[a].img = Node(OrigOf[n])}

\* C24: after apply_corrections with an active correction, every image with
\* an original node was the input of exactly one resampler call, with the
\* motion matrices as pre-transform for the ASL series and calib2asl for
\* the calibration images, and the mean ASL image as reference
C24_OneResamplingPerImage ==
  (last.op = "apply_corrections"
   /\ (WarpActive \/ ~IsNone(Node("asldata_mc_mats")))) =>
    \A n \in DOMAIN OrigOf :
      ~IsNone(Node(OrigOf[n])) =>
        /\ Cardinality(ResamplingsOf(n)) = 1
        /\ \A a \in ResamplingsOf(n) :
             /\ trace[a].premat = (IF n = "asldata" THEN Node("asldata_mc_mats")
                                                    ELSE Node("calib2asl"))
             /\ trace[a].ref = Node("asldata_mean")

\* C25: a call of reg_asl2calib or reg_asl2struc that returns makes no FLIRT
\* call or exactly two consecutive ones: the first translation-only, without
\* degrees of freedom, seeded by the transform supplied (the stored
\* asl2struc, nothing for the calibration image); the second with the
\* requested degrees of freedom, 6 if unset, seeded by the matrix of the
\* first, and its matrix is the one returned.  With flirt and bbr both
\* requested EPI_REG runs after FLIRT, seeded by FLIRT's matrix, and its
\* matrix is the asl2struc stored
C25_TwoStepRigidRegistration ==
  [][(last'.op \in {"reg_asl2calib", "reg_asl2struc"} /\ err' = "none") =>
       LET tr == trace'
           F == {i \in 1..Len(tr) : tr[i].tool = "flirt"}
           E == {i \in 1..Len(tr) : tr[i].tool = "epi_reg"}
           struc == last'.op = "reg_asl2struc"
           stored == RegNodeOf(wsp', IF struc THEN "asl2struc" ELSE "asl2calib")
       IN  /\ F # {} =>
                \E i \in F :
                  /\ F = {i, i + 1}
                  /\ tr[i].schedule = Str("xyztrans.sch")
                  /\ tr[i].dof = None
                  /\ tr[i].init = (IF struc THEN RegNodeOf(wsp, "asl2struc") ELSE None)
                  /\ tr[i + 1].schedule = Str("simple3D.sch")
                  /\ tr[i + 1].init = tr[i].omat
                  /\ tr[i + 1].dof = (IF IsNone(Get(wsp, "dof")) THEN Num(6)
                                                                ELSE Get(wsp, "dof"))
                  /\ E = {} => stored = tr[i + 1].omat
                  /\ \A e \in E : e > i + 1 /\ tr[e].init = tr[i + 1].omat
           /\ \A e \in E : E = {e} /\ stored = tr[e].out]_vars

\* reg_asl2struc has run with flirt and bbr on a workspace that already held
\* asl2struc and asks for 12 degrees of freedom
C25_Witness ==
  /\ last = [op |-> "reg_asl2struc", args |-> <<TRUE, TRUE>>]
  /\ err = "none"
  /\ Node("dof") = Num(12)
  /\ Cardinality(Calls("flirt")) = 2
  /\ Cardinality(Calls("epi_reg")) = 1
  /\ \E i \in Calls("flirt") : ~IsNone(trace[i].init) /\ trace[i].dof = None

\* C26: get_cblip_correction with one of its four inputs missing raises
\* nothing, does not invoke TOPUP and writes neither the stacked pair nor a
\* field
C26_CblipSkipped ==
  [][(/\ last'.op = "get_cblip_correction"
      /\ \E n \in {"calib", "cblip", "pedir", "echospacing"} : IsNone(Node(n)))
     => /\ err' = "none"
        /\ \A i \in 1..Len(trace') : trace'[i].tool # "topup"
        /\ IsNone(Get(wsp', "calib_blipped"))
        /\ IsNone(Get(wsp', "cblip_warp"))]_vars

\* C27: a call of get_fieldmap_correction that skips for a missing input
\* marks the stage done, and a call made when the stage is done and no
\* fmap_warp is stored invokes no tool, writes nothing and leaves fmap_warp
\* absent, whether or not the inputs have been added since
C27_SkipIsFinal ==
  [][/\ (last'.op = "get_fieldmap_correction"
         /\ \E n \in FmapRequired : IsNone(Node(n)))
        => "get_fieldmap_correction" \in done'
     /\ (last'.op = "get_fieldmap_correction"
         /\ "get_fieldmap_correction" \in done
         /\ IsNone(Node("fmap_warp")))
        => /\ trace' = <<>>
           /\ wsp' = wsp
           /\ err' = "none"
           /\ IsNone(Get(wsp', "fmap_warp"))]_vars

\* get_fieldmap_correction was called again after a skipped call and after
\* all its inputs were added, on a workspace with a structural image
C27_Witness ==
  /\ last.op = "get_fieldmap_correction"
  /\ "get_fieldmap_correction" \in done
  /\ \A n \in FmapRequired : ~IsNone(Node(n))
  /\ ~IsNone(Node("struc"))
  /\ IsNone(Node("fmap_warp"))
  /\ trace = <<>>
  /\ err = "none"

====
